---- MODULE Spec2Model ----
(***************************************************************************)
(* Model of package idencoder (brnt/idencoder-go): the IDEncoder           *)
(* configuration, Encode / Decode and their helpers checksum, scramble,    *)
(* enbase, debase, times and leftPad, as written in src/main.go:166-264.   *)
(*                                                                         *)
(* Go strings and byte slices are sequences of bytes; a byte is a small    *)
(* natural number.  uint64 is scaled down to Width bits: every arithmetic  *)
(* result is reduced modulo 2^Width exactly where Go reduces modulo 2^64.  *)
(* A run-time panic is an outcome of a call of its own, never a value.     *)
(***************************************************************************)
EXTENDS Integers, Sequences, FiniteSets, TLC

(* ------------------------------ bounds --------------------------------- *)
\* width in bits of the unsigned integer type (the model's uint64)
Width == 5
\* bytes are 0..MaxByte; alphabets are drawn from 1..MaxByte, so byte 0 is
\* foreign to every alphabet
MaxByte == 3
\* alphabets have 2..MaxAlphabetLen symbols
MaxAlphabetLen == 3
\* minLength arguments are 0..MaxMinLength
MaxMinLength == 6
\* strings handed to Decode have 0..MaxStrLen bytes
MaxStrLen == 5

Pow2(k) == 2 ^ k
\* number of values of the unsigned integer type
Modulus64 == Pow2(Width)
UInt == 0 .. (Modulus64 - 1)
Bytes == 0 .. MaxByte

\* byte strings of length lo..hi
StringsOf(lo, hi) == UNION { [1 .. k -> Bytes] : k \in lo .. hi }

\* an alphabet is duplicate-free (spec section 3, the configuration invariant)
IsAlphabet(a) == \A p, q \in 1 .. Len(a) : p # q => a[p] # a[q]

Alphabets ==
    { a \in UNION { [1 .. k -> 1 .. MaxByte] : k \in 2 .. MaxAlphabetLen } : IsAlphabet(a) }

(* ------------------------------ state ---------------------------------- *)
VARIABLES
    Alphabet,    \* IDEncoder.Alphabet
    BlockSize,   \* IDEncoder.BlockSize
    Checksum,    \* IDEncoder.Checksum (the checksum modulus)
    op,          \* the function called last: "none" right after construction
    n,           \* the integer argument of the last call (n of Encode/scramble, x of enbase)
    minLength,   \* the minLength argument of the last Encode / enbase
    s,           \* the string argument of the last Decode
    encoded,     \* the string the last Encode / enbase returned
    decoded,     \* the integer the last Decode / scramble returned
    ok,          \* the bool the last Encode / Decode returned
    panicked     \* the last call ended in a run-time panic

vars == <<Alphabet, BlockSize, Checksum, op, n, minLength, s, encoded, decoded, ok, panicked>>

config == <<Alphabet, BlockSize, Checksum>>

(* --------------------------- uint64 arithmetic -------------------------- *)
\* conversion to the unsigned type: reduction modulo 2^Width
U64(x) == x % Modulus64

\* bit j of x
Bit(x, j) == (x \div Pow2(j)) % 2

\* x << k on the unsigned type; a shift count >= the width yields 0 in Go
Shl(x, k) == IF k >= Width THEN 0 ELSE U64(x * Pow2(k))

\* bitwise operators of Go on the unsigned type, bit by bit from the lowest
RECURSIVE And(_, _)
And(x, y) ==
    IF x = 0 \/ y = 0 THEN 0
    ELSE (x % 2) * (y % 2) + 2 * And(x \div 2, y \div 2)

RECURSIVE Or(_, _)
Or(x, y) ==
    IF x = 0 THEN y
    ELSE IF y = 0 THEN x
    ELSE (IF (x % 2) + (y % 2) > 0 THEN 1 ELSE 0) + 2 * Or(x \div 2, y \div 2)

\* ^x: every one of the Width bits flipped
Not(x) == (Modulus64 - 1) - x

(* ------------------------------ helpers -------------------------------- *)
\* bytes.IndexByte: 0-based index of the first occurrence of c in b, or -1
RECURSIVE IndexFrom(_, _, _)
IndexFrom(b, c, p) ==
    IF p > Len(b) THEN -1
    ELSE IF b[p] = c THEN p - 1
    ELSE IndexFrom(b, c, p + 1)

IndexByte(b, c) == IndexFrom(b, c, 1)

\* make([]byte, n) panics ("makeslice: len out of range") when n, taken as a
\* signed int, is negative
MakeslicePanics(len) == len >= Pow2(Width - 1)

\* times(c, n): n copies of c
times(c, len) == [p \in 1 .. len |-> c]

\* leftPad(str, length, pad): the padding length is length - len(str) on the
\* unsigned type, so it wraps when str is longer than length
PadLen(str, length) == U64(length - Len(str))

leftPadPanics(str, length) == MakeslicePanics(PadLen(str, length))

leftPad(str, length, pad) == times(pad, PadLen(str, length)) \o str

(* ------------------------ IDEncoder's methods --------------------------- *)
\* checksum(n) = Alphabet[n % Checksum]  (Go indexes from 0)
checksum(x) == Alphabet[(x % Checksum) + 1]

\* scrambleLoop with the target bit off by one: BlockSize - bit for
\* BlockSize - bit - 1
RECURSIVE scrambleLoopOffByOne(_, _, _)
scrambleLoopOffByOne(x, result, bit) ==
    IF bit < BlockSize
    THEN scrambleLoopOffByOne(x,
                              IF And(x, Shl(1, bit)) # 0
                              THEN Or(result, Shl(1, BlockSize - bit))
                              ELSE result,
                              bit + 1)
    ELSE result

\* the loop of scramble, from bit upward
RECURSIVE scrambleLoop(_, _, _)
scrambleLoop(x, result, bit) ==
    IF bit < BlockSize
    THEN scrambleLoop(x,
                      IF And(x, Shl(1, bit)) # 0
                      THEN Or(result, Shl(1, BlockSize - bit - 1))
                      ELSE result,
                      bit + 1)
    ELSE result

\* scramble that starts from result = 0 and so drops the bits above the block
scrambleDropsHighBits(x) == scrambleLoop(x, 0, 0)

scramble(x) ==
    LET mask == U64(Shl(1, BlockSize) - 1)
    IN  scrambleLoop(x, And(x, Not(mask)), 0)

\* enbaseLoop as a do-while: one digit is emitted even for x = 0
RECURSIVE enbaseLoopZeroDigit(_, _)
enbaseLoopZeroDigit(x, chars) ==
    IF x > 0 \/ chars = <<>>
    THEN enbaseLoopZeroDigit(x \div Len(Alphabet), <<Alphabet[(x % Len(Alphabet)) + 1]>> \o chars)
    ELSE chars

\* the loop of enbase: the digits of x, most significant first
RECURSIVE enbaseLoop(_, _)
enbaseLoop(x, chars) ==
    IF x > 0
    THEN enbaseLoop(x \div Len(Alphabet), <<Alphabet[(x % Len(Alphabet)) + 1]>> \o chars)
    ELSE chars

enbasePanics(x, length) == leftPadPanics(enbaseLoop(x, <<>>), length)

enbase(x, length) == leftPad(enbaseLoop(x, <<>>), length, Alphabet[1])

\* the loop of debase, from position p of the slice
RECURSIVE debaseLoop(_, _, _)
debaseLoop(x, result, p) ==
    IF p > Len(x) THEN result
    ELSE debaseLoop(x, U64(U64(result * Len(Alphabet)) + U64(IndexByte(Alphabet, x[p]))), p + 1)

\* debase that starts from result = 1
debaseFromOne(x) == debaseLoop(x, 1, 1)

debase(x) == debaseLoop(x, 0, 1)

\* Encode(n, minLength): panics exactly when enbase's leftPad does
EncodePanics(x, length) == enbasePanics(scramble(x), length)

\* Encode with the checksum taken over the scrambled value
EncodeStringChecksumOfScrambled(x, length) ==
    <<checksum(scramble(x))>> \o enbase(scramble(x), length)

EncodeString(x, length) == <<checksum(x)>> \o enbase(scramble(x), length)

EncodeOk(x, length) == TRUE

\* Decode(s): b[1:] panics on the empty slice
DecodePanics(str) == Len(str) < 1

DecodeValue(str) == scramble(debase(Tail(str)))

\* Decode with the polarity of the returned bool inverted (true on mismatch)
DecodeOkInverted(str) == IF checksum(DecodeValue(str)) # str[1] THEN TRUE ELSE FALSE

DecodeOk(str) == IF checksum(DecodeValue(str)) # str[1] THEN FALSE ELSE TRUE

(* ------------------------------ actions -------------------------------- *)
\* The encoder is stateless: a run constructs it and makes one call (one case
\* of main's switch); the usage loop follows Encode by Decode of its result.

\* a valid configuration: K >= 2 distinct symbols, 1 <= M <= K, B < Width
Init ==
    /\ Alphabet \in Alphabets
    /\ BlockSize \in 0 .. Width - 1
    /\ Checksum \in 1 .. Len(Alphabet)
    /\ op = "none"
    /\ n = 0
    /\ minLength = 0
    /\ s = <<>>
    /\ encoded = <<>>
    /\ decoded = 0
    /\ ok = FALSE
    /\ panicked = FALSE

\* a call of Encode(x, length)
Encode ==
    /\ op = "none"
    /\ \E x \in UInt, length \in 0 .. MaxMinLength :
        /\ op' = "Encode"
        /\ n' = x
        /\ minLength' = length
        /\ s' = <<>>
        /\ decoded' = 0
        /\ IF EncodePanics(x, length)
           THEN /\ panicked' = TRUE
                /\ encoded' = <<>>
                /\ ok' = FALSE
           ELSE /\ panicked' = FALSE
                /\ encoded' = EncodeString(x, length)
                /\ ok' = EncodeOk(x, length)
    /\ UNCHANGED config

\* a call of Decode(str)
Decode ==
    /\ op = "none"
    /\ \E str \in StringsOf(0, MaxStrLen) :
        /\ op' = "Decode"
        /\ s' = str
        /\ IF DecodePanics(str)
           THEN /\ panicked' = TRUE
                /\ decoded' = 0
                /\ ok' = FALSE
           ELSE /\ panicked' = FALSE
                /\ decoded' = DecodeValue(str)
                /\ ok' = DecodeOk(str)
    /\ n' = 0
    /\ minLength' = 0
    /\ encoded' = <<>>
    /\ UNCHANGED config

\* the second half of the usage loop: Decode of what Encode just returned
DecodeEncoded ==
    /\ op = "Encode"
    /\ ~panicked
    /\ op' = "EncodeDecode"
    /\ s' = encoded
    /\ IF DecodePanics(encoded)
       THEN /\ panicked' = TRUE
            /\ decoded' = 0
            /\ ok' = FALSE
       ELSE /\ panicked' = FALSE
            /\ decoded' = DecodeValue(encoded)
            /\ ok' = DecodeOk(encoded)
    /\ UNCHANGED <<config, n, minLength, encoded>>

\* Decode of an encoded string whose checksum head was replaced by another
\* alphabet symbol h
DecodeForged ==
    /\ op = "Encode"
    /\ ~panicked
    /\ \E p \in 1 .. Len(Alphabet) :
        LET h == Alphabet[p]
            str == <<h>> \o Tail(encoded)
        IN  /\ h # encoded[1]
            /\ op' = "EncodeForgeDecode"
            /\ s' = str
            /\ IF DecodePanics(str)
               THEN /\ panicked' = TRUE
                    /\ decoded' = 0
                    /\ ok' = FALSE
               ELSE /\ panicked' = FALSE
                    /\ decoded' = DecodeValue(str)
                    /\ ok' = DecodeOk(str)
    /\ UNCHANGED <<config, n, minLength, encoded>>

\* Encode of a value Decode accepted, at the length of the decoded tail
EncodeDecoded ==
    /\ op = "Decode"
    /\ ~panicked
    /\ ok
    /\ op' = "DecodeEncode"
    /\ n' = decoded
    /\ minLength' = Len(s) - 1
    /\ IF EncodePanics(decoded, Len(s) - 1)
       THEN /\ panicked' = TRUE
            /\ encoded' = <<>>
            /\ ok' = FALSE
       ELSE /\ panicked' = FALSE
            /\ encoded' = EncodeString(decoded, Len(s) - 1)
            /\ ok' = EncodeOk(decoded, Len(s) - 1)
    /\ UNCHANGED <<config, s, decoded>>

\* a call of scramble(x)
Scramble ==
    /\ op = "none"
    /\ \E x \in UInt :
        /\ op' = "scramble"
        /\ n' = x
        /\ decoded' = scramble(x)
    /\ minLength' = 0
    /\ s' = <<>>
    /\ encoded' = <<>>
    /\ ok' = FALSE
    /\ panicked' = FALSE
    /\ UNCHANGED config

\* a call of enbase(x, length)
Enbase ==
    /\ op = "none"
    /\ \E x \in UInt, length \in 0 .. MaxMinLength :
        /\ op' = "enbase"
        /\ n' = x
        /\ minLength' = length
        /\ IF enbasePanics(x, length)
           THEN /\ panicked' = TRUE
                /\ encoded' = <<>>
           ELSE /\ panicked' = FALSE
                /\ encoded' = enbase(x, length)
    /\ s' = <<>>
    /\ decoded' = 0
    /\ ok' = FALSE
    /\ UNCHANGED config

Next ==
    \/ Encode
    \/ Decode
    \/ DecodeEncoded
    \/ DecodeForged
    \/ EncodeDecoded
    \/ Scramble
    \/ Enbase

Spec == Init /\ [][Next]_vars

TypeOK ==
    /\ Alphabet \in Alphabets
    /\ BlockSize \in 0 .. Width - 1
    /\ Checksum \in 1 .. Len(Alphabet)
    /\ op \in {"none", "Encode", "Decode", "EncodeDecode", "EncodeForgeDecode", "DecodeEncode", "scramble", "enbase"}
    /\ n \in UInt
    /\ decoded \in UInt
    /\ ok \in BOOLEAN
    /\ panicked \in BOOLEAN

(* ----------------- reference notions used by the claims ----------------- *)
\* the symbols of the alphabet
Symbols == { Alphabet[p] : p \in 1 .. Len(Alphabet) }

\* the numeric value of an alphabet symbol: its 0-based position
ValueOf(c) == (CHOOSE p \in 1 .. Len(Alphabet) : Alphabet[p] = c) - 1

\* every symbol of t is in the alphabet
InAlphabet(t) == \A p \in 1 .. Len(t) : t[p] \in Symbols

\* the number a string of alphabet symbols denotes in radix K, as an
\* unbounded integer
RECURSIVE Numeral(_)
Numeral(t) ==
    IF t = <<>> THEN 0
    ELSE Numeral(SubSeq(t, 1, Len(t) - 1)) * Len(Alphabet) + ValueOf(t[Len(t)])

\* x with its low b bits in reverse order and the other bits kept
RECURSIVE ReverseLow(_, _, _)
ReverseLow(x, b, j) ==
    IF j < 0 THEN 0
    ELSE (IF j < b THEN Bit(x, b - 1 - j) ELSE Bit(x, j)) * Pow2(j) + ReverseLow(x, b, j - 1)

\* the number of radix-K digits of x; 0 has none
RECURSIVE NaturalLength(_)
NaturalLength(x) == IF x = 0 THEN 0 ELSE 1 + NaturalLength(x \div Len(Alphabet))

Max(a, b) == IF a >= b THEN a ELSE b

\* the radix-K digits of x, most significant first, behind enough copies of
\* Alphabet[0] to make Max(length, NaturalLength(x)) symbols
Padded(x, length) ==
    LET k == NaturalLength(x)
        m == Max(length, k)
    IN  [p \in 1 .. m |->
            IF p <= m - k THEN Alphabet[1]
            ELSE Alphabet[((x \div (Len(Alphabet) ^ (m - p))) % Len(Alphabet)) + 1]]

DecodeOps == {"Decode", "EncodeDecode", "EncodeForgeDecode"}

(* ------------------------------- claims --------------------------------- *)
\* C1: round trip. Every Encode(n, L) returns a string, and Decode of that
\* string returns (n, true), for every minLength L, also one smaller than the
\* number of digits of scramble(n).
C1_RoundTrip ==
    /\ op = "Encode" => ~panicked
    /\ op = "EncodeDecode" => ~panicked /\ decoded = n /\ ok

\* Where Encode does return, the round trip holds.
RoundTripWhereEncodeReturns ==
    op = "EncodeDecode" => ~panicked /\ decoded = n /\ ok

\* C2: no collisions. For one configuration and one minLength L, Encode(n1, L)
\* and Encode(n2, L) with n1 # n2 both return strings, and the strings differ.
C2_NoCollisions ==
    op = "Encode" =>
        \A n2 \in UInt \ {n} :
            /\ ~panicked
            /\ ~EncodePanics(n2, minLength)
            /\ EncodeString(n2, minLength) # encoded

\* Where both calls return, the strings differ.
NoCollisionsWhereEncodeReturns ==
    op = "Encode" /\ ~panicked =>
        \A n2 \in UInt \ {n} :
            ~EncodePanics(n2, minLength) => EncodeString(n2, minLength) # encoded

\* C3: scramble is an involution. For every block size B < Width and every n,
\* also n >= 2^B, scramble(scramble(n)) = n.
C3_ScrambleInvolution ==
    op = "scramble" => scramble(decoded) = n

C3_Witness ==
    /\ op = "scramble"
    /\ BlockSize >= 2
    /\ n >= Pow2(BlockSize)
    /\ decoded # n
    /\ scramble(decoded) = n

\* C4: a checksum mismatch is reported softly. Decode of a string of length
\* >= 1 whose tail is over the alphabet returns the low-B-bit reversal of the
\* tail's radix-K value (modulo 2^Width) and ok = (Alphabet[value mod M] is
\* the head); Decode of an encoded string whose head was replaced by another
\* alphabet symbol returns ok = false and still the encoded value.
C4_SoftChecksumMismatch ==
    /\ op \in DecodeOps /\ Len(s) >= 1 /\ InAlphabet(Tail(s)) =>
          /\ ~panicked
          /\ decoded = ReverseLow(U64(Numeral(Tail(s))), BlockSize, Width - 1)
          /\ ok = (Alphabet[(decoded % Checksum) + 1] = s[1])
    /\ op = "EncodeForgeDecode" =>
          /\ ~panicked
          /\ ok = FALSE
          /\ decoded = n

C4_Witness ==
    /\ op = "EncodeForgeDecode"
    /\ Len(s) >= 3
    /\ n > 0
    /\ decoded = n
    /\ ~ok
    /\ s[1] # encoded[1]
    /\ Tail(s) = Tail(encoded)

\* C5: Decode of the empty string returns ok = false to its caller; it does
\* not panic.
C5_EmptyStringRecoverable ==
    op = "Decode" /\ s = <<>> => ~panicked /\ ok = FALSE

\* C6: Decode of a string with a symbol that is not in the alphabet, in the
\* head or in the tail, returns ok = false and does not panic.
C6_ForeignSymbolRejected ==
    op = "Decode" /\ Len(s) >= 1 /\ ~InAlphabet(s) => ~panicked /\ ok = FALSE

\* A foreign head alone is always rejected.
ForeignHeadRejected ==
    op = "Decode" /\ Len(s) >= 1 /\ s[1] \notin Symbols => ~panicked /\ ok = FALSE

\* C7 as stated: Decode never returns ok = true for a string shorter than 2
\* symbols.
C7_ShortStringNeverOk ==
    op \in DecodeOps /\ Len(s) < 2 => ~ok

\* C7 as amended: Decode of a one-symbol string h does not fail; it returns
\* value 0 and ok = (h = Alphabet[0]), so it accepts the lone Alphabet[0]
\* (the string Encode(0, 0) returns) and rejects every other one-symbol string.
C7_OneSymbolDecode ==
    op \in DecodeOps /\ Len(s) = 1 =>
        /\ ~panicked
        /\ decoded = 0
        /\ ok = (s[1] = Alphabet[1])

C7_Witness ==
    /\ op = "Decode"
    /\ Len(s) = 1
    /\ s[1] = Alphabet[1]
    /\ ok
    /\ decoded = 0

\* C8: left-padding rule. enbase(x, minLength) returns the radix-K digits of
\* x behind copies of Alphabet[0], max(minLength, natural length) symbols in
\* all; with minLength at most the natural length it returns the bare digits.
C8_LeftPadRule ==
    op = "enbase" => ~panicked /\ encoded = Padded(n, minLength)

\* Where enbase returns, it returns the padded digits.
LeftPadRuleWhereEnbaseReturns ==
    op = "enbase" /\ ~panicked => encoded = Padded(n, minLength)

\* C9: padding neutrality. For every x and every two minimum lengths L1, L2,
\* also those at most the natural length of x, enbase(x, L1) and
\* enbase(x, L2) are returned and debase maps both to x.
C9_PaddingNeutral ==
    op = "enbase" =>
        /\ ~panicked
        /\ debase(encoded) = n
        /\ \A l2 \in 0 .. MaxMinLength :
              ~enbasePanics(n, l2) /\ debase(enbase(n, l2)) = n

\* Where enbase returns, debase recovers x.
PaddingNeutralWhereEnbaseReturns ==
    op = "enbase" /\ ~panicked => debase(encoded) = n

\* C10: scramble(n) reverses the order of the low B bits of n and keeps every
\* bit at a position >= B: bit j of the result is bit B-1-j of n for j < B
\* and bit j of n for j >= B; with B = 0 the result is n.
C10_ScrambleReversesLowBits ==
    op = "scramble" =>
        /\ \A j \in 0 .. Width - 1 :
              Bit(decoded, j) = IF j < BlockSize THEN Bit(n, BlockSize - 1 - j) ELSE Bit(n, j)
        /\ BlockSize = 0 => decoded = n

C10_Witness ==
    /\ op = "scramble"
    /\ BlockSize >= 2
    /\ BlockSize < Width
    /\ Bit(n, 0) = 1
    /\ Bit(n, BlockSize - 1) = 0
    /\ Bit(n, BlockSize) = 1
    /\ Bit(decoded, 0) = 0
    /\ Bit(decoded, BlockSize - 1) = 1
    /\ Bit(decoded, BlockSize) = 1

\* C11: for every n and L, Encode(n, L) returns the success indicator true
\* and a string whose first symbol is Alphabet[n mod M], taken over n itself
\* and not over scramble(n); the head is one of the first M alphabet symbols.
C11_EncodeHeadIsChecksum ==
    op = "Encode" =>
        /\ ~panicked
        /\ ok = TRUE
        /\ Len(encoded) >= 1
        /\ encoded[1] = Alphabet[(n % Checksum) + 1]
        /\ \E p \in 1 .. Checksum : encoded[1] = Alphabet[p]

\* Where Encode returns, it returns true and the checksum of n as the head.
EncodeHeadWhereEncodeReturns ==
    op = "Encode" /\ ~panicked =>
        /\ ok = TRUE
        /\ Len(encoded) >= 1
        /\ encoded[1] = Alphabet[(n % Checksum) + 1]
        /\ \E p \in 1 .. Checksum : encoded[1] = Alphabet[p]

\* C12: zero has no digits. enbase(0, L) is exactly L copies of Alphabet[0],
\* the empty string for L = 0, and Encode(0, 0) returns, without a panic,
\* the one-symbol string made of Alphabet[0].
C12_ZeroHasNoDigits ==
    /\ op = "enbase" /\ n = 0 =>
          /\ ~panicked
          /\ Len(encoded) = minLength
          /\ \A p \in 1 .. Len(encoded) : encoded[p] = Alphabet[1]
    /\ op = "Encode" /\ n = 0 /\ minLength = 0 =>
          /\ ~panicked
          /\ encoded = <<Alphabet[1]>>

C12_Witness ==
    /\ op = "Encode"
    /\ n = 0
    /\ minLength = 0
    /\ ~panicked
    /\ BlockSize >= 1
    /\ Checksum >= 2
    /\ encoded = <<Alphabet[1]>>

\* the radix-K numerals of this length stay below 2^Width, so that debase
\* does not wrap
NoWrap(len) == Len(Alphabet) ^ len <= Modulus64

\* C13: reverse round trip. For a string s = h ++ t with every symbol of t in
\* the alphabet and K^len(t) <= 2^Width, if Decode(s) returns (v, true) then
\* Encode(v, len(t)) returns exactly s; and the same value is accepted one
\* symbol longer, with one more leading Alphabet[0] in the tail.
C13_ReverseRoundTrip ==
    /\ op = "DecodeEncode" /\ InAlphabet(Tail(s)) /\ NoWrap(Len(s) - 1) =>
          /\ ~panicked
          /\ n = decoded
          /\ encoded = s
    /\ op = "Decode" /\ ~panicked /\ ok /\ InAlphabet(Tail(s)) /\ NoWrap(Len(s) - 1) =>
          LET longer == <<s[1], Alphabet[1]>> \o Tail(s)
          IN  /\ DecodeValue(longer) = decoded
              /\ DecodeOk(longer)

C13_Witness ==
    /\ op = "DecodeEncode"
    /\ Len(s) >= 3
    /\ InAlphabet(Tail(s))
    /\ NoWrap(Len(s) - 1)
    /\ s[2] = Alphabet[1]
    /\ decoded > 0
    /\ BlockSize >= 2
    /\ Checksum >= 2
    /\ ~panicked
    /\ encoded = s

\* The case the bound on the tail length excludes, a reachable state: debase
\* wrapped modulo 2^Width and Encode of the accepted value is another string.
WrappedDecodeIsNotReencoded ==
    /\ op = "DecodeEncode"
    /\ InAlphabet(Tail(s))
    /\ ~NoWrap(Len(s) - 1)
    /\ ~panicked
    /\ encoded # s
====
